---- MODULE Spec2Model ----
(***************************************************************************)
(* A model of bedrock_agent_proxy.py: the Flask application that accepts   *)
(* OpenAI-style chat-completion requests and relays them to a Bedrock      *)
(* agent.  Text handled by the context builder is a sequence of one-       *)
(* character strings; bytes and decoded text handled by the relay are      *)
(* sequences of numbers (byte values, code points).                        *)
(***************************************************************************)
EXTENDS Integers, Sequences, FiniteSets, TLC

VARIABLES
    API_KEY,            \* line 32, fixed at start-up
    AGENTS,             \* lines 38-54, the registry, fixed at start-up
    pc,                 \* where the request in progress stands
    endpoint,           \* route of the request in progress
    auth_header,        \* request.headers.get('Authorization')
    data,               \* request.json
    messages,           \* line 105
    model_id,           \* line 106
    stream_mode,        \* line 107
    agent_config,       \* lines 110-115
    last_user_message,  \* lines 121-129
    full_input,         \* lines 150-152
    agent_request,      \* lines 158-164, None until invoke_agent is called
    events,             \* response["completion"], the backend's event stream
    pos,                \* number of events the iterator has handed out
    frames,             \* what generate_stream has yielded so far
    gen,                \* state of the generate_stream generator
    response,           \* what the view function returned, or the exception that left it
    resolve_failed      \* history: an earlier request failed at line 117

vars == << API_KEY, AGENTS, pc, endpoint, auth_header, data, messages, model_id,
           stream_mode, agent_config, last_user_message, full_input,
           agent_request, events, pos, frames, gen, response, resolve_failed >>

-----------------------------------------------------------------------------
(* Bounds of the model. *)

\* longest message list explored by the context-building specification
MaxMsgs == 3
\* longest backend event stream explored by the relay specification
MaxEvents == 3
\* longest message list of a request in the whole-application specification
MaxReqMsgs == 1
\* longest backend event stream in the whole-application specification
MaxReqEvents == 1

-----------------------------------------------------------------------------
(* Text literals. *)

NL == "\n"

None == [none |-> TRUE]

ContextHeader == <<"P", "r", "e", "v", "i", "o", "u", "s", " ", "c", "o", "n", "v", "e", "r", "s", "a", "t", "i", "o", "n", ":", NL>>
SystemLabel == <<"S", "y", "s", "t", "e", "m", " ", "i", "n", "s", "t", "r", "u", "c", "t", "i", "o", "n", ":", " ">>
UserLabel == <<"U", "s", "e", "r", ":", " ">>
AssistantLabel == <<"A", "s", "s", "i", "s", "t", "a", "n", "t", ":", " ">>
CurrentLabel == <<NL, NL, "C", "u", "r", "r", "e", "n", "t", " ", "m", "e", "s", "s", "a", "g", "e", ":", " ">>

Hi == <<"H", "i">>
BeTerse == <<"B", "e", " ", "t", "e", "r", "s", "e">>
Hello == <<"H", "e", "l", "l", "o">>

Roles == {"system", "user", "assistant", "tool"}
Contents == {<<>>, Hi, BeTerse, Hello}
Message == [role : Roles, content : Contents]

RECURSIVE SeqsUpTo(_, _)
SeqsUpTo(S, n) ==
    IF n = 0 THEN {<<>>}
    ELSE LET shorter == SeqsUpTo(S, n - 1)
         IN  shorter \cup {Append(s, x) : s \in shorter, x \in S}

-----------------------------------------------------------------------------
(* Configuration (lines 32-54). *)

DEFAULT_AGENT == "DEFAULT"

ApiKeys == {"", "None", "bedrock-agent-proxy-key"}

Identity(name) == [agent_id |-> <<"id", name>>, alias_id |-> <<"alias", name>>]

Registry(names) == [n \in names |-> Identity(n)]

Registries == {Registry({}), Registry({"AGENT-A"}), Registry({"DEFAULT", "AGENT-A"})}

\* str.lower() on the words the model uses
Lower(s) ==
    CASE s = "None"   -> "none"
      [] s = "NONE"   -> "none"
      [] s = "Bearer" -> "bearer"
      [] s = "BEARER" -> "bearer"
      [] s = "Basic"  -> "basic"
      [] OTHER        -> s

-----------------------------------------------------------------------------
(* validate_api_key (lines 64-93).  A header is absent (None) or present   *)
(* with the list of its whitespace-separated words, which is what          *)
(* auth_header.split() yields; a present header without words is an empty  *)
(* or blank one.                                                           *)

NoHeader == [present |-> FALSE, words |-> <<>>]
Header(words) == [present |-> TRUE, words |-> words]

validate_api_key(key, header) ==
    LET parts == header.words
    IN  IF key = "" \/ Lower(key) = "none" THEN TRUE
        ELSE IF ~header.present \/ parts = <<>> THEN FALSE
        ELSE IF Len(parts) # 2 \/ Lower(parts[1]) # "bearer" THEN FALSE
        ELSE IF parts[2] # key THEN FALSE
        ELSE TRUE

-----------------------------------------------------------------------------
(* dict.get(key, default) on the request body. *)

Get(d, k, default) == IF k \in DOMAIN d THEN d[k] ELSE default

Restrict(f, K) == [k \in K |-> f[k]]

-----------------------------------------------------------------------------
(* Registry lookup (lines 110-115). *)

\* a variant without the fallback of lines 113-115
ResolveNoFallback(agents, mid) ==
    IF mid \in DOMAIN agents THEN agents[mid] ELSE None

\* a variant that reads the entry with .get(): a missing default yields empty ids
ResolveOrEmpty(agents, mid) ==
    IF mid \in DOMAIN agents THEN agents[mid]
    ELSE IF DEFAULT_AGENT \in DOMAIN agents THEN agents[DEFAULT_AGENT]
    ELSE [agent_id |-> <<>>, alias_id |-> <<>>]

Resolve(agents, mid) ==
    IF mid \in DOMAIN agents THEN agents[mid]
    ELSE IF DEFAULT_AGENT \in DOMAIN agents THEN agents[DEFAULT_AGENT]
    ELSE None

-----------------------------------------------------------------------------
(* Anchor selection (lines 120-129). *)

\* the reversed scan of lines 122-125: content of the last user message, "" if none
RECURSIVE ScanLastUser(_, _)
ScanLastUser(msgs, i) ==
    IF i = 0 THEN <<>>
    ELSE IF msgs[i].role = "user" THEN msgs[i].content
    ELSE ScanLastUser(msgs, i - 1)

\* lines 121-129 on a non-empty list
SelectLastUserMessage(msgs) ==
    LET found == ScanLastUser(msgs, Len(msgs))
    IN  IF found = <<>> THEN msgs[Len(msgs)].content ELSE found

-----------------------------------------------------------------------------
(* Context building (lines 131-152). *)

\* a variant with the labels of the user and assistant branches exchanged
ContextLineSwapped(msg) ==
    CASE msg.role = "system"    -> SystemLabel \o msg.content \o <<NL>>
      [] msg.role = "user"      -> AssistantLabel \o msg.content \o <<NL>>
      [] msg.role = "assistant" -> UserLabel \o msg.content \o <<NL>>
      [] OTHER                  -> <<>>

\* one iteration of the loop of lines 135-147: the text appended for a message
ContextLine(msg) ==
    CASE msg.role = "system"    -> SystemLabel \o msg.content \o <<NL>>
      [] msg.role = "user"      -> UserLabel \o msg.content \o <<NL>>
      [] msg.role = "assistant" -> AssistantLabel \o msg.content \o <<NL>>
      [] OTHER                  -> <<>>

RenderedRole(msg) == msg.role \in {"system", "user", "assistant"}

\* messages[:-1]
AllButLast(msgs) == IF msgs = <<>> THEN <<>> ELSE SubSeq(msgs, 1, Len(msgs) - 1)

RECURSIVE ContextLines(_, _)
ContextLines(msgs, n) ==
    IF n = 0 THEN <<>>
    ELSE ContextLines(msgs, n - 1) \o ContextLine(msgs[n])

\* lines 132-147: the context string after the loop
BuildContext(msgs) ==
    ContextHeader \o ContextLines(AllButLast(msgs), Len(AllButLast(msgs)))

HasPreviousMessages(msgs) ==
    \E i \in 1..Len(AllButLast(msgs)) : RenderedRole(msgs[i])

\* lines 150-152
FullInput(msgs, anchor) ==
    IF HasPreviousMessages(msgs)
    THEN BuildContext(msgs) \o CurrentLabel \o anchor
    ELSE anchor

-----------------------------------------------------------------------------
(* bytes.decode("utf-8") (lines 199 and 255): strict UTF-8.  The result is *)
(* the sequence of code points, or a failure (UnicodeDecodeError).         *)

IsCont(b) == b >= 128 /\ b <= 191

\* number of bytes of the character that lead byte b starts; 0 if b cannot lead
CharLen(b) ==
    IF b < 128 THEN 1
    ELSE IF b >= 194 /\ b <= 223 THEN 2
    ELSE IF b >= 224 /\ b <= 239 THEN 3
    ELSE IF b >= 240 /\ b <= 244 THEN 4
    ELSE 0

\* the range the second byte must lie in (overlong forms, surrogates, > U+10FFFF)
SecondOk(b, c) ==
    CASE b = 224 -> c >= 160 /\ c <= 191
      [] b = 237 -> c >= 128 /\ c <= 159
      [] b = 240 -> c >= 144 /\ c <= 191
      [] b = 244 -> c >= 128 /\ c <= 143
      [] OTHER   -> IsCont(c)

CodePoint(bs, i, n) ==
    CASE n = 1 -> bs[i]
      [] n = 2 -> (bs[i] - 192) * 64 + (bs[i + 1] - 128)
      [] n = 3 -> (bs[i] - 224) * 4096 + (bs[i + 1] - 128) * 64 + (bs[i + 2] - 128)
      [] n = 4 -> (bs[i] - 240) * 262144 + (bs[i + 1] - 128) * 4096
                      + (bs[i + 2] - 128) * 64 + (bs[i + 3] - 128)

WellFormedAt(bs, i, n) ==
    /\ n > 0
    /\ i + n - 1 <= Len(bs)
    /\ n >= 2 => SecondOk(bs[i], bs[i + 1])
    /\ \A k \in 2..(n - 1) : IsCont(bs[i + k])

DecodeFailure == [ok |-> FALSE, text |-> <<>>]

RECURSIVE DecodeFrom(_, _, _)
DecodeFrom(bs, i, acc) ==
    IF i > Len(bs) THEN [ok |-> TRUE, text |-> acc]
    ELSE LET n == CharLen(bs[i])
         IN  IF WellFormedAt(bs, i, n)
             THEN DecodeFrom(bs, i + n, Append(acc, CodePoint(bs, i, n)))
             ELSE DecodeFailure

Decode(bs) == DecodeFrom(bs, 1, <<>>)

-----------------------------------------------------------------------------
(* The backend's event stream.  An event is a chunk carrying bytes, an     *)
(* event without a chunk (a trace), or a fault of the stream itself, which *)
(* the iterator raises when it reaches it.                                 *)

Chunk(bs) == [kind |-> "chunk", bytes |-> bs]
TraceEvent == [kind |-> "trace", bytes |-> <<>>]
StreamFault == [kind |-> "fault", bytes |-> <<>>]

\* "Hel", "lo", the two bytes of U+00E9, each half of it alone, an invalid byte
Fragments == {<<>>, <<72, 101, 108>>, <<108, 111>>, <<195, 169>>, <<195>>, <<169>>, <<255>>}

BackendEvents == {Chunk(bs) : bs \in Fragments} \cup {TraceEvent, StreamFault}

ReqBackendEvents == {Chunk(<<72, 101, 108>>), Chunk(<<195>>), StreamFault}

-----------------------------------------------------------------------------
(* Aggregate mode (lines 252-255): the loop that drains the stream.  The   *)
(* result is the completion string, or the exception that ended the loop.  *)

RECURSIVE DrainFrom(_, _, _)
DrainFrom(evs, i, completion) ==
    IF i > Len(evs) THEN [exc |-> "", completion |-> completion]
    ELSE IF evs[i].kind = "fault" THEN [exc |-> "EventStreamError", completion |-> completion]
    ELSE IF evs[i].kind = "chunk"
         THEN LET d == Decode(evs[i].bytes)
              IN  IF d.ok THEN DrainFrom(evs, i + 1, completion \o d.text)
                  ELSE [exc |-> "UnicodeDecodeError", completion |-> completion]
    ELSE DrainFrom(evs, i + 1, completion)

\* a variant with "completion =" for "completion +=" on line 255: the last fragment wins
RECURSIVE DrainLastFrom(_, _, _)
DrainLastFrom(evs, i, completion) ==
    IF i > Len(evs) THEN [exc |-> "", completion |-> completion]
    ELSE IF evs[i].kind = "fault" THEN [exc |-> "EventStreamError", completion |-> completion]
    ELSE IF evs[i].kind = "chunk"
         THEN LET d == Decode(evs[i].bytes)
              IN  IF d.ok THEN DrainLastFrom(evs, i + 1, d.text)
                  ELSE [exc |-> "UnicodeDecodeError", completion |-> completion]
    ELSE DrainLastFrom(evs, i + 1, completion)

DrainLastOnly(evs) == DrainLastFrom(evs, 1, <<>>)

Drain(evs) == DrainFrom(evs, 1, <<>>)

-----------------------------------------------------------------------------
(* Frames of generate_stream (lines 177-235).  A frame is the text         *)
(* "data: <payload>\n\n"; the payload is a chunk object or the literal     *)
(* [DONE].  The id and created fields, drawn once per request (lines       *)
(* 172-173) and equal in all frames of it, are left out.                   *)

ChunkFrame(mid, delta, finish) ==
    [data |-> [object |-> "chat.completion.chunk", model |-> mid,
               choices |-> <<[index |-> 0, delta |-> delta, finish_reason |-> finish]>>]]

RoleFrame(mid) == ChunkFrame(mid, [role |-> "assistant"], "null")
ContentFrame(mid, text) == ChunkFrame(mid, [content |-> text], "null")
FinishFrame(mid) == ChunkFrame(mid, <<>>, "stop")
DoneFrame == [literal |-> "data: [DONE]"]

IsChunkFrame(f) == "data" \in DOMAIN f
Delta(f) == f.data.choices[1].delta
FinishReason(f) == f.data.choices[1].finish_reason
IsContentFrame(f) == IsChunkFrame(f) /\ "content" \in DOMAIN Delta(f)

\* a variant without the test of line 200: an empty fragment yields a content frame too
StreamEventFramesNoSkip(mid, ev) ==
    IF ev.kind = "chunk" /\ Decode(ev.bytes).ok
    THEN <<ContentFrame(mid, Decode(ev.bytes).text)>>
    ELSE <<>>

\* the body of the loop of lines 197-216 for one event: the frames it yields
StreamEventFrames(mid, ev) ==
    IF ev.kind = "chunk" /\ Decode(ev.bytes).ok /\ Decode(ev.bytes).text # <<>>
    THEN <<ContentFrame(mid, Decode(ev.bytes).text)>>
    ELSE <<>>

\* a variant that decodes with errors="ignore": bytes that are not UTF-8 raise nothing
StreamEventExcSwallowed(ev) ==
    IF ev.kind = "fault" THEN "EventStreamError" ELSE ""

\* the exception the loop of lines 197-216 raises on an event, "" if none
StreamEventExc(ev) ==
    IF ev.kind = "fault" THEN "EventStreamError"
    ELSE IF ev.kind = "chunk" /\ ~Decode(ev.bytes).ok THEN "UnicodeDecodeError"
    ELSE ""

\* lines 258-278
ChatResponse(mid, completion) ==
    [object |-> "chat.completion", model |-> mid,
     choices |-> <<[index |-> 0,
                    message |-> [role |-> "assistant", content |-> completion],
                    finish_reason |-> "stop"]>>,
     usage |-> [prompt_tokens |-> -1, completion_tokens |-> -1, total_tokens |-> -1]]

-----------------------------------------------------------------------------
(* Requests, responses and backend answers. *)

NoResponse == [kind |-> "none"]
\* the view function returned jsonify(body) with this status
JsonResponse(status, body) == [kind |-> "json", status |-> status, body |-> body]
\* lines 238-247: Response(generate_stream(), mimetype="text/event-stream")
StreamResponse == [kind |-> "stream", status |-> 200, mimetype |-> "text/event-stream"]
\* an exception left the view function: the try of line 100 has no handler
Raised(exc) == [kind |-> "exception", exc |-> exc]

\* lines 290-297
InvalidApiKeyBody ==
    [error |-> [message |-> "Invalid API key", type |-> "invalid_request_error",
                code |-> "invalid_api_key"]]

GenIdle == [state |-> "none", exc |-> ""]
GenRunning == [state |-> "running", exc |-> ""]
GenFinished == [state |-> "finished", exc |-> ""]
GenRaised(exc) == [state |-> "raised", exc |-> exc]

Key == "bedrock-agent-proxy-key"

Headers ==
    {NoHeader} \cup
    {Header(w) : w \in {<<>>, <<"Bearer", Key>>, <<"bearer", Key>>, <<"Basic", Key>>,
                        <<"Bearer", "wrong-key">>, <<"Bearer">>, <<"Bearer", Key, "x">>}}

\* request bodies: any of the keys may be missing
Bodies(msgLists, models, keySets) ==
    {Restrict([messages |-> ms, model |-> mo, stream |-> st], K) :
        ms \in msgLists, mo \in models, st \in BOOLEAN, K \in keySets}

\* what invoke_agent does: it raises ClientError or returns an event stream
ClientError == [raises |-> "ClientError", completion |-> <<>>]
Answer(evs) == [raises |-> "", completion |-> evs]
BackendAnswers(evSet, n) == {ClientError} \cup {Answer(evs) : evs \in SeqsUpTo(evSet, n)}

-----------------------------------------------------------------------------
(* Start-up: the configuration is read once (lines 32-54). *)

Blank ==
    /\ pc = "idle"
    /\ endpoint = "none"
    /\ auth_header = NoHeader
    /\ data = <<>>
    /\ messages = <<>>
    /\ model_id = ""
    /\ stream_mode = FALSE
    /\ agent_config = None
    /\ last_user_message = <<>>
    /\ full_input = <<>>
    /\ agent_request = None
    /\ events = <<>>
    /\ pos = 0
    /\ frames = <<>>
    /\ gen = GenIdle
    /\ response = NoResponse


Init ==
    /\ API_KEY \in ApiKeys
    /\ AGENTS \in Registries
    /\ Blank
    /\ resolve_failed = FALSE

-----------------------------------------------------------------------------
(* chat_completions (lines 95-281). *)

\* an exception leaves the view function: the request is over
Raise(exc) ==
    /\ response' = Raised(exc)
    /\ pc' = "done"

\* lines 101-107
ReceiveChat(header, body) ==
    /\ pc = "idle"
    /\ endpoint' = "chat"
    /\ auth_header' = header
    /\ data' = body
    /\ messages' = Get(body, "messages", <<>>)
    /\ model_id' = Get(body, "model", DEFAULT_AGENT)
    /\ stream_mode' = Get(body, "stream", FALSE)
    /\ agent_config' = None
    /\ last_user_message' = <<>>
    /\ full_input' = <<>>
    /\ agent_request' = None
    /\ events' = <<>>
    /\ pos' = 0
    /\ frames' = <<>>
    /\ gen' = GenIdle
    /\ response' = NoResponse
    /\ pc' = "resolve"
    /\ UNCHANGED <<API_KEY, AGENTS, resolve_failed>>

\* lines 110-118: agent_config["agent_id"] raises TypeError when agent_config is None
ResolveAgent ==
    /\ pc = "resolve"
    /\ agent_config' = Resolve(AGENTS, model_id)
    /\ IF agent_config' = None
       THEN Raise("TypeError") /\ resolve_failed' = TRUE
       ELSE pc' = "anchor" /\ UNCHANGED <<response, resolve_failed>>
    /\ UNCHANGED <<API_KEY, AGENTS, endpoint, auth_header, data, messages, model_id,
                   stream_mode, last_user_message, full_input, agent_request,
                   events, pos, frames, gen>>

\* lines 120-129: messages[-1] raises IndexError when the list is empty
SelectAnchor ==
    /\ pc = "anchor"
    /\ IF messages = <<>>
       THEN Raise("IndexError") /\ UNCHANGED last_user_message
       ELSE /\ last_user_message' = SelectLastUserMessage(messages)
            /\ pc' = "context"
            /\ UNCHANGED response
    /\ UNCHANGED <<API_KEY, AGENTS, endpoint, auth_header, data, messages, model_id,
                   stream_mode, agent_config, full_input, agent_request,
                   events, pos, frames, gen, resolve_failed>>

\* lines 131-152
CombineContext ==
    /\ pc = "context"
    /\ full_input' = FullInput(messages, last_user_message)
    /\ pc' = "invoke"
    /\ UNCHANGED <<API_KEY, AGENTS, endpoint, auth_header, data, messages, model_id,
                   stream_mode, agent_config, last_user_message, agent_request,
                   events, pos, frames, gen, response, resolve_failed>>

\* lines 154-173; the session id (line 155) plays no part in what follows
InvokeAgent(answer) ==
    /\ pc = "invoke"
    /\ agent_request' = [agentId |-> agent_config.agent_id,
                         agentAliasId |-> agent_config.alias_id,
                         inputText |-> full_input,
                         enableTrace |-> FALSE]
    /\ IF answer.raises # ""
       THEN Raise(answer.raises) /\ UNCHANGED events
       ELSE /\ events' = answer.completion
            /\ pc' = "relay"
            /\ UNCHANGED response
    /\ UNCHANGED <<API_KEY, AGENTS, endpoint, auth_header, data, messages, model_id,
                   stream_mode, agent_config, last_user_message, full_input,
                   pos, frames, gen, resolve_failed>>

\* lines 249-281: what the non-streaming branch ends in
AggregateOutcome(mid, evs) ==
    LET r == Drain(evs)
    IN  IF r.exc # "" THEN Raised(r.exc)
        ELSE JsonResponse(200, ChatResponse(mid, r.completion))

\* lines 249-281: non-streaming mode
Aggregate ==
    /\ pc = "relay"
    /\ ~stream_mode
    /\ response' = AggregateOutcome(model_id, events)
    /\ pc' = "done"
    /\ UNCHANGED <<API_KEY, AGENTS, endpoint, auth_header, data, messages, model_id,
                   stream_mode, agent_config, last_user_message, full_input,
                   agent_request, events, pos, frames, gen, resolve_failed>>

\* lines 176-177 and 237-247: the view returns the response; the generator has not run yet
ReturnStream ==
    /\ pc = "relay"
    /\ stream_mode
    /\ response' = StreamResponse
    /\ gen' = GenRunning
    /\ pc' = "gen_role"
    /\ UNCHANGED <<API_KEY, AGENTS, endpoint, auth_header, data, messages, model_id,
                   stream_mode, agent_config, last_user_message, full_input,
                   agent_request, events, pos, frames, resolve_failed>>

\* lines 178-194
StreamRole ==
    /\ pc = "gen_role"
    /\ frames' = Append(frames, RoleFrame(model_id))
    /\ pc' = "gen_loop"
    /\ UNCHANGED <<API_KEY, AGENTS, endpoint, auth_header, data, messages, model_id,
                   stream_mode, agent_config, last_user_message, full_input,
                   agent_request, events, pos, gen, response, resolve_failed>>

\* lines 196-216: the loop takes the next event
StreamEvent ==
    /\ pc = "gen_loop"
    /\ pos < Len(events)
    /\ pos' = pos + 1
    /\ LET ev == events[pos + 1]
       IN  IF StreamEventExc(ev) # ""
           THEN /\ gen' = GenRaised(StreamEventExc(ev))
                /\ pc' = "done"
                /\ UNCHANGED frames
           ELSE /\ frames' = frames \o StreamEventFrames(model_id, ev)
                /\ UNCHANGED <<gen, pc>>
    /\ UNCHANGED <<API_KEY, AGENTS, endpoint, auth_header, data, messages, model_id,
                   stream_mode, agent_config, last_user_message, full_input,
                   agent_request, events, response, resolve_failed>>

\* lines 218-232: the stream is exhausted
StreamFinish ==
    /\ pc = "gen_loop"
    /\ pos = Len(events)
    /\ frames' = Append(frames, FinishFrame(model_id))
    /\ pc' = "gen_done"
    /\ UNCHANGED <<API_KEY, AGENTS, endpoint, auth_header, data, messages, model_id,
                   stream_mode, agent_config, last_user_message, full_input,
                   agent_request, events, pos, gen, response, resolve_failed>>

\* lines 234-235
StreamDone ==
    /\ pc = "gen_done"
    /\ frames' = Append(frames, DoneFrame)
    /\ pc' = "gen_end"
    /\ UNCHANGED <<API_KEY, AGENTS, endpoint, auth_header, data, messages, model_id,
                   stream_mode, agent_config, last_user_message, full_input,
                   agent_request, events, pos, gen, response, resolve_failed>>

\* the generator returns after line 235
StreamEnd ==
    /\ pc = "gen_end"
    /\ gen' = GenFinished
    /\ pc' = "done"
    /\ UNCHANGED <<API_KEY, AGENTS, endpoint, auth_header, data, messages, model_id,
                   stream_mode, agent_config, last_user_message, full_input,
                   agent_request, events, pos, frames, response, resolve_failed>>

-----------------------------------------------------------------------------
(* list_models (lines 283-315). *)

ListModels(header) ==
    /\ pc = "idle"
    /\ endpoint' = "models"
    /\ auth_header' = header
    /\ response' = IF ~validate_api_key(API_KEY, header)
                   THEN JsonResponse(401, InvalidApiKeyBody)
                   ELSE JsonResponse(200, [object |-> "list", data |-> DOMAIN AGENTS])
    /\ data' = <<>>
    /\ messages' = <<>>
    /\ model_id' = ""
    /\ stream_mode' = FALSE
    /\ agent_config' = None
    /\ last_user_message' = <<>>
    /\ full_input' = <<>>
    /\ agent_request' = None
    /\ events' = <<>>
    /\ pos' = 0
    /\ frames' = <<>>
    /\ gen' = GenIdle
    /\ pc' = "done"
    /\ UNCHANGED <<API_KEY, AGENTS, resolve_failed>>

-----------------------------------------------------------------------------
(* app.run (line 324): the server goes on to the next request; nothing of  *)
(* the finished one is kept but the configuration.                         *)

NextRequest ==
    /\ pc = "done"
    /\ pc' = "idle"
    /\ endpoint' = "none"
    /\ auth_header' = NoHeader
    /\ data' = <<>>
    /\ messages' = <<>>
    /\ model_id' = ""
    /\ stream_mode' = FALSE
    /\ agent_config' = None
    /\ last_user_message' = <<>>
    /\ full_input' = <<>>
    /\ agent_request' = None
    /\ events' = <<>>
    /\ pos' = 0
    /\ frames' = <<>>
    /\ gen' = GenIdle
    /\ response' = NoResponse
    /\ UNCHANGED <<API_KEY, AGENTS, resolve_failed>>

-----------------------------------------------------------------------------
(* The whole application, on short message lists and short backend streams. *)

ReqMessage == [role : {"user", "assistant"}, content : {<<>>, Hi}]
ReqBodies ==
    Bodies(SeqsUpTo(ReqMessage, MaxReqMsgs), {"AGENT-A", "unknown-model"},
           SUBSET {"messages", "model", "stream"})

Next ==
    \/ pc = "idle" /\ \E h \in Headers, b \in ReqBodies : ReceiveChat(h, b)
    \/ ResolveAgent
    \/ SelectAnchor
    \/ CombineContext
    \/ pc = "invoke" /\ \E a \in BackendAnswers(ReqBackendEvents, MaxReqEvents) : InvokeAgent(a)
    \/ Aggregate
    \/ ReturnStream
    \/ StreamRole
    \/ StreamEvent
    \/ StreamFinish
    \/ StreamDone
    \/ StreamEnd
    \/ pc = "idle" /\ \E h \in Headers : ListModels(h)
    \/ NextRequest

Spec == Init /\ [][Next]_vars

-----------------------------------------------------------------------------
(* The context builder on all message lists up to MaxMsgs, one            *)
(* configuration, no backend.                                              *)

InitCollapse ==
    /\ API_KEY = Key
    /\ AGENTS = Registry({"DEFAULT", "AGENT-A"})
    /\ Blank
    /\ resolve_failed = FALSE

CollapseBodies == Bodies(SeqsUpTo(Message, MaxMsgs), {"AGENT-A"}, {{"messages"}, {}})

NextCollapse ==
    \/ pc = "idle" /\ \E b \in CollapseBodies : ReceiveChat(Header(<<"Bearer", Key>>), b)
    \/ ResolveAgent
    \/ SelectAnchor
    \/ CombineContext
    \/ NextRequest

SpecCollapse == InitCollapse /\ [][NextCollapse]_vars

-----------------------------------------------------------------------------
(* The relay on all backend streams up to MaxEvents, in both delivery      *)
(* modes, for one conversation.                                            *)

RelayBodies ==
    Bodies({<<[role |-> "user", content |-> Hi]>>}, {"AGENT-A"},
           {{"messages", "stream"}, {"messages"}})

NextRelay ==
    \/ pc = "idle" /\ \E b \in RelayBodies : ReceiveChat(Header(<<"Bearer", Key>>), b)
    \/ ResolveAgent
    \/ SelectAnchor
    \/ CombineContext
    \/ pc = "invoke" /\ \E a \in BackendAnswers(BackendEvents, MaxEvents) : InvokeAgent(a)
    \/ Aggregate
    \/ ReturnStream
    \/ StreamRole
    \/ StreamEvent
    \/ StreamFinish
    \/ StreamDone
    \/ StreamEnd
    \/ NextRequest

SpecRelay == InitCollapse /\ [][NextRelay]_vars

-----------------------------------------------------------------------------
(* Properties of the context builder, checked under SpecCollapse.  The     *)
(* operators below read the message list the way the documentation         *)
(* describes it; they use nothing of the model but the labels.             *)

Max(S) == CHOOSE x \in S : \A y \in S : y <= x

UserIndexes(msgs) == {i \in 1..Len(msgs) : msgs[i].role = "user"}

\* the last user message's content if there is a user message, else the last message's
DocumentedAnchor(msgs) ==
    IF UserIndexes(msgs) # {} THEN msgs[Max(UserIndexes(msgs))].content
    ELSE msgs[Len(msgs)].content

RoleLabel(role) ==
    CASE role = "system"    -> SystemLabel
      [] role = "user"      -> UserLabel
      [] role = "assistant" -> AssistantLabel

\* the messages rendered "<RoleLabel>: <content>", one per line, other roles left out
RECURSIVE Transcript(_)
Transcript(msgs) ==
    IF msgs = <<>> THEN <<>>
    ELSE LET m == Head(msgs)
         IN  (IF m.role \in {"system", "user", "assistant"}
              THEN RoleLabel(m.role) \o m.content \o <<NL>>
              ELSE <<>>) \o Transcript(Tail(msgs))

Front(msgs) == [i \in 1..(Len(msgs) - 1) |-> msgs[i]]

CurrentMessageText == <<"C", "u", "r", "r", "e", "n", "t", " ", "m", "e", "s", "s", "a", "g", "e", ":", " ">>

IsSuffix(t, s) == Len(t) <= Len(s) /\ SubSeq(s, Len(s) - Len(t) + 1, Len(s)) = t

Contains(s, t) == \E i \in 0..(Len(s) - Len(t)) : SubSeq(s, i + 1, i + Len(t)) = t

\* the input text has been built for the request in progress
Collapsed == endpoint = "chat" /\ pc = "invoke"

TerseConversation ==
    <<[role |-> "system", content |-> BeTerse], [role |-> "user", content |-> Hi]>>

TerseInputDocumented == <<"S", "y", "s", "t", "e", "m", " ", "i", "n", "s", "t", "r", "u", "c", "t", "i", "o", "n", ":", " ", "B", "e", " ", "t", "e", "r", "s", "e", NL, NL, NL, "C", "u", "r", "r", "e", "n", "t", " ", "m", "e", "s", "s", "a", "g", "e", ":", " ", "H", "i">>

TerseInputActual == <<"P", "r", "e", "v", "i", "o", "u", "s", " ", "c", "o", "n", "v", "e", "r", "s", "a", "t", "i", "o", "n", ":", NL, "S", "y", "s", "t", "e", "m", " ", "i", "n", "s", "t", "r", "u", "c", "t", "i", "o", "n", ":", " ", "B", "e", " ", "t", "e", "r", "s", "e", NL, NL, NL, "C", "u", "r", "r", "e", "n", "t", " ", "m", "e", "s", "s", "a", "g", "e", ":", " ", "H", "i">>

\* C3 as stated: a non-empty transcript of all messages but the last is followed by
\* two newlines and "Current message: " + anchor, with nothing prepended; otherwise
\* the input text is the anchor alone; the two scenarios yield the documented texts.
C3_InputTextAsStated ==
    Collapsed =>
        /\ full_input =
              IF Transcript(Front(messages)) # <<>>
              THEN Transcript(Front(messages)) \o <<NL, NL>> \o CurrentMessageText
                       \o last_user_message
              ELSE last_user_message
        /\ messages = TerseConversation => full_input = TerseInputDocumented
        /\ messages = <<[role |-> "user", content |-> Hello]>> => full_input = Hello

\* C3 amended: when some message but the last has one of the three roles, the input
\* text is "Previous conversation:\n", then those messages each rendered
\* "<RoleLabel>: <content>\n" in order, then "\n\nCurrent message: " + anchor;
\* otherwise it is the anchor alone.  The system/user scenario yields
\* "Previous conversation:\nSystem instruction: Be terse\n\n\nCurrent message: Hi",
\* the single user message "Hello" yields "Hello".
C3_InputText ==
    Collapsed =>
        /\ full_input =
              IF Transcript(Front(messages)) # <<>>
              THEN <<"P", "r", "e", "v", "i", "o", "u", "s", " ", "c", "o", "n", "v",
                     "e", "r", "s", "a", "t", "i", "o", "n", ":", NL>>
                       \o Transcript(Front(messages)) \o <<NL, NL>> \o CurrentMessageText
                       \o last_user_message
              ELSE last_user_message
        /\ messages = TerseConversation => full_input = TerseInputActual
        /\ messages = <<[role |-> "user", content |-> Hello]>> => full_input = Hello

C3_Witness ==
    /\ Collapsed
    /\ messages = TerseConversation
    /\ full_input = TerseInputActual

\* C4: for a non-empty message list the input text is non-empty, and its current
\* message is the content of the last user message if there is a user message,
\* else the content of the last message.
C4_AnchorIsLastUser ==
    (Collapsed /\ messages # <<>>) =>
        /\ full_input # <<>>
        /\ last_user_message = DocumentedAnchor(messages)
        /\ IsSuffix(DocumentedAnchor(messages), full_input)

\* C10: when the list has at least two messages, the last is not a user message and
\* an earlier user message has non-empty content, the input text leaves the last
\* message out and carries the anchor user message's content twice: in a "User: "
\* line of the transcript and after "Current message: ".
C10_FinalMessageOmitted ==
    (/\ Collapsed
     /\ Len(messages) >= 2
     /\ messages[Len(messages)].role # "user"
     /\ \E i \in 1..(Len(messages) - 1) :
            messages[i].role = "user" /\ messages[i].content # <<>>)
    =>  LET anchor == messages[Max(UserIndexes(messages))].content
        IN  /\ full_input = ContextHeader \o Transcript(Front(messages))
                                \o <<NL, NL>> \o CurrentMessageText \o anchor
            /\ Contains(full_input, UserLabel \o anchor \o <<NL>>)
            /\ IsSuffix(CurrentMessageText \o anchor, full_input)

-----------------------------------------------------------------------------
(* Properties of the relay, checked under SpecRelay. *)

\* the event raises nothing: it is no stream fault and its bytes, if any, are UTF-8
EventOk(ev) == ev.kind # "fault" /\ (ev.kind = "chunk" => Decode(ev.bytes).ok)

StreamDecodes(evs) == \A i \in 1..Len(evs) : EventOk(evs[i])

\* the decoded, non-empty fragments of the events, in the order received
RECURSIVE NonEmptyTexts(_)
NonEmptyTexts(evs) ==
    IF evs = <<>> THEN <<>>
    ELSE LET ev == Head(evs)
             here == IF ev.kind = "chunk" /\ Decode(ev.bytes).ok /\ Len(Decode(ev.bytes).text) > 0
                     THEN <<Decode(ev.bytes).text>>
                     ELSE <<>>
         IN  here \o NonEmptyTexts(Tail(evs))

RECURSIVE Flatten(_)
Flatten(texts) == IF texts = <<>> THEN <<>> ELSE Head(texts) \o Flatten(Tail(texts))

\* the events before the first one that raises
OkPrefix(evs) ==
    LET bad == {i \in 1..Len(evs) : ~EventOk(evs[i])}
    IN  IF bad = {} THEN evs
        ELSE SubSeq(evs, 1, (CHOOSE i \in bad : \A j \in bad : i <= j) - 1)

\* the exception of the first event that raises
FaultOf(evs) ==
    LET ev == evs[Len(OkPrefix(evs)) + 1]
    IN  IF ev.kind = "fault" THEN "EventStreamError" ELSE "UnicodeDecodeError"

Streaming == endpoint = "chat" /\ response = StreamResponse

IsRoleFrame(f) ==
    IsChunkFrame(f) /\ Delta(f) = [role |-> "assistant"] /\ FinishReason(f) = "null"
IsContentFrameOf(f, text) ==
    IsChunkFrame(f) /\ Delta(f) = [content |-> text] /\ FinishReason(f) = "null"
IsStopFrame(f) ==
    IsChunkFrame(f) /\ DOMAIN Delta(f) = {} /\ FinishReason(f) = "stop"
IsSentinel(f) == ~IsChunkFrame(f) /\ f.literal = "data: [DONE]"

\* role frame, one content frame per text, stop frame, sentinel
IsSuccessSequence(fs, texts) ==
    /\ Len(fs) = Len(texts) + 3
    /\ IsRoleFrame(fs[1])
    /\ \A i \in 1..Len(texts) : IsContentFrameOf(fs[i + 1], texts[i])
    /\ IsStopFrame(fs[Len(fs) - 1])
    /\ IsSentinel(fs[Len(fs)])

\* the frames are the first frames of a success sequence, short of stop frame and sentinel
IsOpenSequence(fs, texts) ==
    /\ Len(fs) <= Len(texts) + 1
    /\ Len(fs) >= 1 => IsRoleFrame(fs[1])
    /\ \A i \in 1..(Len(fs) - 1) : IsContentFrameOf(fs[i + 1], texts[i])

\* C1: when the backend's events decode without error, generate_stream yields the
\* role frame, one content frame per fragment that decodes to a non-empty string (in
\* the order received, with that fragment as delta.content), the stop frame and the
\* sentinel, and nothing after the sentinel.
C1_StreamSequence ==
    (Streaming /\ StreamDecodes(events)) =>
        /\ \/ IsOpenSequence(frames, NonEmptyTexts(events))
           \/ IsOpenSequence(SubSeq(frames, 1, Len(frames) - 1), NonEmptyTexts(events))
                /\ Len(frames) = Len(NonEmptyTexts(events)) + 2
                /\ IsStopFrame(frames[Len(frames)])
           \/ IsSuccessSequence(frames, NonEmptyTexts(events))
        /\ pc = "gen_loop" => Len(frames) = 1 + Len(NonEmptyTexts(SubSeq(events, 1, pos)))
        /\ pc = "done" => gen = GenFinished /\ IsSuccessSequence(frames, NonEmptyTexts(events))

C1_Witness ==
    /\ Streaming
    /\ pc = "done"
    /\ events = <<Chunk(<<72, 101, 108>>), Chunk(<<>>), Chunk(<<108, 111>>)>>
    /\ Len(frames) = 5
    /\ Delta(frames[2]).content = <<72, 101, 108>>
    /\ Delta(frames[3]).content = <<108, 111>>

\* the concatenation of delta.content over the content frames
RECURSIVE StreamedContent(_)
StreamedContent(fs) ==
    IF fs = <<>> THEN <<>>
    ELSE (IF IsContentFrame(Head(fs)) THEN Delta(Head(fs)).content ELSE <<>>)
             \o StreamedContent(Tail(fs))

\* C2: the concatenation of the streamed content frames equals the message content
\* of the ChatResponse that aggregate mode produces for the same events.
C2_CrossMode ==
    /\ (Streaming /\ pc = "done" /\ gen = GenFinished) =>
            LET agg == AggregateOutcome(model_id, events)
            IN  /\ agg.kind = "json"
                /\ agg.body.choices[1].message.content = StreamedContent(frames)
    /\ (endpoint = "chat" /\ pc = "done" /\ ~stream_mode /\ response.kind = "json") =>
            /\ StreamDecodes(events)
            /\ response.body.choices[1].message.content = Flatten(NonEmptyTexts(events))

C2_Witness ==
    /\ Streaming
    /\ pc = "done"
    /\ gen = GenFinished
    /\ events = <<Chunk(<<72, 101, 108>>), Chunk(<<195, 169>>), Chunk(<<108, 111>>)>>
    /\ StreamedContent(frames) = <<72, 101, 108, 233, 108, 111>>

\* C8: when an event of the backend stream raises (a stream fault, or bytes that are
\* not UTF-8), the frames yielded are the first frames of the success sequence, the
\* stop frame and the sentinel are never yielded, and the generator ends with the
\* exception; in aggregate mode the request ends with the exception, not a ChatResponse.
C8_FaultEndsStream ==
    /\ (Streaming /\ ~StreamDecodes(events)) =>
            /\ IsOpenSequence(frames, NonEmptyTexts(OkPrefix(events)))
            /\ \A i \in 1..Len(frames) : ~IsStopFrame(frames[i]) /\ ~IsSentinel(frames[i])
            /\ gen # GenFinished
            /\ pc = "done" =>
                   /\ gen = GenRaised(FaultOf(events))
                   /\ Len(frames) = Len(NonEmptyTexts(OkPrefix(events))) + 1
    /\ (endpoint = "chat" /\ ~stream_mode /\ pc = "done" /\ ~StreamDecodes(events)) =>
            response = Raised(FaultOf(events))

C8_Witness ==
    /\ Streaming
    /\ pc = "done"
    /\ events = <<Chunk(<<72, 101, 108>>), Chunk(<<195>>), Chunk(<<108, 111>>)>>
    /\ gen = GenRaised("UnicodeDecodeError")
    /\ Len(frames) = 2

-----------------------------------------------------------------------------
(* Properties of the whole application, checked under Spec. *)

Registered(mid) == mid \in DOMAIN AGENTS

\* the request in progress is a chat request past the registry lookup
Resolved == endpoint = "chat" /\ pc # "resolve"

\* the backend was invoked with this identity
InvokedWith(identity) ==
    /\ agent_request # None
    /\ agent_request.agentId = identity.agent_id
    /\ agent_request.agentAliasId = identity.alias_id

\* the request is over and was answered: a ChatResponse, or a stream run to its end
Succeeded ==
    /\ pc = "done"
    /\ \/ response.kind = "json" /\ response.status = 200
       \/ response = StreamResponse /\ gen = GenFinished

\* the backend answered the request in progress with events that all decode
BackendAnswered == response # Raised("ClientError") /\ StreamDecodes(events)

\* C5: a model id that is not registered resolves to the identity registered for
\* DEFAULT_AGENT; with the default registered the lookup raises nothing, the backend
\* is invoked with the default's identity, and the request succeeds when the backend
\* answers.
C5_FallsBackToDefault ==
    (Resolved /\ ~Registered(model_id) /\ Registered(DEFAULT_AGENT)) =>
        /\ agent_config = AGENTS[DEFAULT_AGENT]
        /\ response # Raised("TypeError")
        /\ agent_request # None => InvokedWith(AGENTS[DEFAULT_AGENT])
        /\ (pc = "done" /\ messages # <<>>) => InvokedWith(AGENTS[DEFAULT_AGENT])
        /\ (pc = "done" /\ messages # <<>> /\ BackendAnswered) => Succeeded

C5_Witness ==
    /\ model_id = "unknown-model"
    /\ Registered(DEFAULT_AGENT)
    /\ InvokedWith(Identity("DEFAULT"))
    /\ Succeeded
    /\ response.kind = "json"

\* C9: when neither the requested model id nor DEFAULT_AGENT is registered, the
\* request ends with an exception before the backend is invoked; a later request for
\* a registered model id resolves to that model's identity and succeeds.
C9_MissingDefaultFailsRequestOnly ==
    /\ (Resolved /\ ~Registered(model_id) /\ ~Registered(DEFAULT_AGENT)) =>
            /\ pc = "done"
            /\ response = Raised("TypeError")
            /\ agent_request = None
            /\ resolve_failed
    /\ (resolve_failed /\ Resolved /\ Registered(model_id)) =>
            /\ agent_config = AGENTS[model_id]
            /\ response # Raised("TypeError")
            /\ (pc = "done" /\ messages # <<>>) => InvokedWith(AGENTS[model_id])
            /\ (pc = "done" /\ messages # <<>> /\ BackendAnswered) => Succeeded

C9_Witness ==
    /\ resolve_failed
    /\ ~Registered(DEFAULT_AGENT)
    /\ model_id = "AGENT-A"
    /\ InvokedWith(Identity("AGENT-A"))
    /\ Succeeded

KeyConfigured == API_KEY # "" /\ Lower(API_KEY) # "none"

\* the header is not "Bearer <the configured key>"
BadCredentials(header) ==
    ~(/\ header.present
      /\ Len(header.words) = 2
      /\ Lower(header.words[1]) = "bearer"
      /\ header.words[2] = API_KEY)

Unauthorized ==
    response.kind = "json" /\ response.status = 401 /\ "error" \in DOMAIN response.body

\* C6: with a key configured, a request on either route whose Authorization header
\* is missing, malformed, of the wrong scheme or carries another key never reaches
\* the backend and is answered with an error body and status 401.
\* (Chat requests are taken once their agent is resolved and their message list is
\* known to be non-empty, so that no other failure of the request is in play.)
C6_AuthGatesCore ==
    (/\ KeyConfigured
     /\ BadCredentials(auth_header)
     /\ \/ endpoint = "models"
        \/ endpoint = "chat" /\ agent_config # None /\ messages # <<>>)
    =>  /\ agent_request = None
        /\ pc = "done" => Unauthorized

\* the part of the gate that list_models implements (line 289)
ModelsRouteGated ==
    (KeyConfigured /\ endpoint = "models" /\ BadCredentials(auth_header)) => Unauthorized

\* C7: a chat request with an empty or absent message list is answered with an error
\* response, not ended by an exception, and the backend is not invoked for it.
C7_EmptyConversationRejected ==
    (endpoint = "chat" /\ Get(data, "messages", <<>>) = <<>> /\ agent_config # None
        /\ pc = "done") =>
        /\ agent_request = None
        /\ response.kind = "json"
        /\ response.status >= 400

====
